---- MODULE Spec2Model ----
(***************************************************************************)
(* Model of the support-ticket plugin (src/support.ts, lines 1-1486):      *)
(* Role, BaseStore, Ticket, Support, Queue, SupportSession, Challenge,     *)
(* RequestChallenge, SupportResponseChallenge and ChallengeQueue.          *)
(*                                                                         *)
(* Every host event and chat command is one action.  A handler is a        *)
(* sequence of synchronous steps followed by the promise continuations it  *)
(* scheduled (Ticket.save); the steps are operators over a working record  *)
(* W that carries the plugin state through the handler.  A thrown Error    *)
(* sets W.err and skips the remaining synchronous steps; whatever was      *)
(* assigned before the throw stays assigned.                               *)
(***************************************************************************)
EXTENDS Integers, Sequences, FiniteSets, TLC

VARIABLES
  online,          \* uids of the clients the backend currently knows (getClientByUID)
  now,             \* Date.now()
  pendingRequest,  \* Support.pendingRequest: state of RequestChallenge k
  ticket,          \* ticket[k]: the Ticket object created by RequestChallenge k
  queues,          \* queues[q]: ticket index wrapped by Queue object q
  queue,           \* Support.queue: the open-queue list (Queue object ids)
  sessions,        \* Support.sessions: ticket index of each SupportSession
  src,             \* the SupportResponseChallenge objects
  challengeQueue,  \* Support.challengeQueue: uid -> ChallengeQueue
  store,           \* BaseStore: blacklist, tickets, config.ticketId
  lastOp,          \* what the last handler did: command, messages, store writes, error
  removed,         \* removed[q]: number of times Queue q was spliced out of Support.queue
  sessionCount,    \* sessionCount[k]: number of SupportSessions ever created for ticket k
  inOrder,         \* inOrder[k]: every setInquiry/setIssue call on challenge k came through its command
  rt,              \* input and result of the serialize/fromStore round trip
  plugin           \* the load handler: store version, phase, store.setup called, commands and events registered

vars == <<online, now, pendingRequest, ticket, queues, queue, sessions, src,
          challengeQueue, store, lastOp, removed, sessionCount, inOrder, rt,
          plugin>>

-----------------------------------------------------------------------------
(* Bounds of the model *)

MaxRequests == 2      \* RequestChallenges created in one run
MaxTicks == 2         \* clock steps
MaxTicketArg == 2     \* largest ticket id tried with the rate command
MaxDone == 1          \* stored records after which RequestChallenge is no longer driven directly
MaxItems == 4         \* SupportResponseChallenges created when ChallengeQueue is driven directly

(* Configuration and environment *)

Requesters == {"u1", "u2"}
Supporters == {"s1", "s2"}
Clients == Requesters \cup Supporters
Roaming == {"u1"}           \* the clients that leave and rejoin the server
AbsentAtLoad == {{}, {"s2"}} \* who may be missing when the plugin loads
BlacklistAtLoad == {{}, {"u2"}} \* the blacklist found in the persisted store

\* backend.getClients() lists the online clients in this order
ClientOrder == <<"u1", "u2", "s1", "s2">>

\* client.getServerGroups()
ServerGroups(c) ==
  CASE c = "s1" -> {"g0"}
    [] c = "s2" -> {"g0", "g1"}
    [] OTHER -> {}

\* config.roles
ConfigRoles ==
  << [department |-> "billing", sgid |-> {"g0"}, permDeveloper |-> FALSE],
     [department |-> "tech",    sgid |-> {"g1"}, permDeveloper |-> TRUE] >>

\* arguments tried with the commands
Inquiries == -1 .. Len(ConfigRoles)
Issues == {"short", "123456789", "1234567890"}
Reasons == {"", "driver reinstalled"}
DevActions == {1, 2}
Ratings == {4, 6}

MAX_AGE_FOR_RATING == 2 * 24 * 60 * 60 * 1000
TickStep == MAX_AGE_FOR_RATING \div 2
StartTime == 3 * TickStep

REQUIRED_STORE_VERSION == 1

Undefined == -1       \* JavaScript undefined, where a number is expected

ASK_INQUIRY == 0
DESCRIBE_ISSUE == 1
DONE == 2

WAITING == 0
REQUEST == 1
ACCEPT == 2
DECLINE == 3
TIMEOUT == 4
COMPLETE == 5
UNRESOLVED == 6

None == 0             \* no SupportResponseChallenge (ChallengeQueue.active undefined)

-----------------------------------------------------------------------------
(* Role *)

Role(r) == [department |-> r.department, isValid |-> TRUE]
RoleEmpty == [department |-> "_EMPTY_", isValid |-> FALSE]
RoleDeleted == [department |-> "_DELETED_", isValid |-> FALSE]

hasRole(r, c) == (ServerGroups(c) \cap r.sgid) # {}

getRoleByDepartment(department) ==
  LET found == {i \in 1 .. Len(ConfigRoles) : ConfigRoles[i].department = department}
  IN  IF found = {} THEN Undefined
      ELSE CHOOSE i \in found : \A j \in found : i <= j

\* department "" stands for an omitted argument
getClientSupportRoles(c, department) ==
  {i \in 1 .. Len(ConfigRoles) :
      /\ hasRole(ConfigRoles[i], c)
      /\ (department = "" \/ ConfigRoles[i].department = department)}

isSupporter(c, department) == getClientSupportRoles(c, department) # {}

hasPermissionDeveloper(c) ==
  \E i \in getClientSupportRoles(c, "") : ConfigRoles[i].permDeveloper

-----------------------------------------------------------------------------
(* Sequence helpers *)

\* Array.prototype.indexOf, 1-based; 0 stands for -1
IndexOf(s, x) ==
  LET hits == {i \in 1 .. Len(s) : s[i] = x}
  IN  IF hits = {} THEN 0 ELSE CHOOSE i \in hits : \A j \in hits : i <= j

\* Array.prototype.splice(index, 1)
Splice1(s, i) == SubSeq(s, 1, i - 1) \o SubSeq(s, i + 1, Len(s))

\* { ...a, ...b }: the properties of b override those of a
Spread(a, b) ==
  [f \in (DOMAIN a) \cup (DOMAIN b) |-> IF f \in DOMAIN b THEN b[f] ELSE a[f]]

-----------------------------------------------------------------------------
(* Ticket *)

\* new Ticket(support) followed by setIssuer(uid)
NewTicket(uid) ==
  [id |-> 0, issuer |-> uid, issue |-> "", role |-> RoleEmpty, created |-> 0,
   status |-> "open", supporter |-> "", resolved |-> FALSE,
   resolvedText |-> "_EMPTY_", resolvedDate |-> 0, rating |-> Undefined]

isValid(t) ==
  /\ Len(t.issuer) > 0
  /\ Len(t.issue) > 0
  /\ t.role.isValid
  /\ t.created > 0

serialize(t) ==
  [id |-> t.id, issuer |-> t.issuer, issue |-> t.issue, created |-> t.created,
   role |-> t.role.department, status |-> t.status, supporter |-> t.supporter,
   resolved |-> t.resolved, resolvedText |-> t.resolvedText,
   resolvedDate |-> t.resolvedDate, rating |-> t.rating]

\* x || d for strings: the empty string is falsy
OrString(x, d) == IF x = "" THEN d ELSE x

\* new Ticket(support, entry); created keeps its field initialiser
fromStore(e) ==
  [id |-> IF e.id = 0 THEN 0 ELSE e.id,
   issuer |-> OrString(e.issuer, ""),
   issue |-> OrString(e.issue, ""),
   role |-> IF e.role # ""
            THEN (IF getRoleByDepartment(e.role) # Undefined
                  THEN Role(ConfigRoles[getRoleByDepartment(e.role)])
                  ELSE RoleDeleted)
            ELSE RoleEmpty,
   created |-> 0,
   status |-> OrString(e.status, "open"),
   supporter |-> IF e.supporter # "" THEN e.supporter ELSE "",
   resolved |-> e.resolved,
   resolvedDate |-> IF e.resolvedDate = 0 THEN 0 ELSE e.resolvedDate,
   resolvedText |-> OrString(e.resolvedText, "_EMPTY_"),
   rating |-> IF e.rating = Undefined THEN Undefined ELSE e.rating]

-----------------------------------------------------------------------------
(* BaseStore *)

\* the array after updateTicket's map
updateTicketMap(tickets, entry) ==
  [i \in 1 .. Len(tickets) |-> IF tickets[i].id = entry.id THEN entry ELSE tickets[i]]

\* the id updateTicket resolves to
updateTicketResult(tickets, entry) ==
  IF \E i \in 1 .. Len(tickets) : tickets[i].id = entry.id THEN entry.id ELSE Undefined

\* the record addTicket appends: { id, ...entry }
addTicketRecord(id, entry) == Spread([id |-> id], entry)

getTicketBy(tickets, prop, value) ==
  SelectSeq(tickets, LAMBDA e : e[prop] = value)

-----------------------------------------------------------------------------
(* The working record of a handler *)

Begin ==
  [pendingRequest |-> pendingRequest, ticket |-> ticket, queues |-> queues,
   queue |-> queue, sessions |-> sessions, src |-> src,
   challengeQueue |-> challengeQueue, store |-> store, removed |-> removed,
   sessionCount |-> sessionCount, inOrder |-> inOrder,
   err |-> "", msgs |-> << >>, writes |-> 0, moved |-> {}, micro |-> << >>,
   interleaved |-> FALSE]

Throw(W, e) == IF W.err # "" THEN W ELSE [W EXCEPT !.err = e]

\* client.chat(text) on a client object the handler already holds
send(W, uid, text) ==
  IF W.err # "" THEN W ELSE [W EXCEPT !.msgs = Append(@, [to |-> uid, text |-> text])]

\* Support.getClient(uid).chat(text): getClient throws for an unknown uid
chat(W, uid, text) ==
  IF W.err # "" THEN W
  ELSE IF uid \notin online THEN Throw(W, "Client not found")
  ELSE send(W, uid, text)

-----------------------------------------------------------------------------
(* Ticket.save / Support.saveTicket *)

\* a save of ticket k has called updateTicket and not yet assigned this.id
saveInFlight(W, k) == \E n \in 1 .. Len(W.micro) : W.micro[n].ticket = k

\* Ticket.save() up to the await in saveTicket: store.updateTicket(serialize()) has run
saveTicket(W, k) ==
  IF W.err # "" THEN W
  ELSE LET e == serialize(W.ticket[k])
       IN  [W EXCEPT !.store.tickets = updateTicketMap(@, e),
                     !.writes = @ + 1,
                     !.interleaved = @ \/ saveInFlight(W, k),
                     !.micro = Append(@, [ticket |-> k,
                                          id |-> updateTicketResult(W.store.tickets, e)])]

\* the rest of saveTicket and of Ticket.save: if (id) return id; addTicket; this.id = id
saveTicketResume(W, m) ==
  IF m.id # Undefined /\ m.id # 0
  THEN [W EXCEPT !.ticket[m.ticket].id = m.id]
  ELSE LET id == W.store.ticketId
           e == serialize(W.ticket[m.ticket])
       IN  [W EXCEPT !.store.ticketId = id + 1,
                     !.store.tickets = Append(@, addTicketRecord(id, e)),
                     !.writes = @ + 1,
                     !.ticket[m.ticket].id = id]

RECURSIVE runMicrotasks(_)
\* the promise continuations run after the synchronous part of the handler
runMicrotasks(W) ==
  IF W.micro = << >> THEN W
  ELSE runMicrotasks(saveTicketResume([W EXCEPT !.micro = Tail(@)], Head(W.micro)))

-----------------------------------------------------------------------------
(* SupportSession, Queue *)

\* SupportSession.start / moveTogether
moveTogether(W, k) ==
  IF W.err # "" THEN W
  ELSE IF W.ticket[k].issuer \notin online \/ W.ticket[k].supporter \notin online
  THEN Throw(W, "Client not found")
  ELSE [W EXCEPT !.moved = {W.ticket[k].issuer, W.ticket[k].supporter}]

createSupportSession(W, k) ==
  IF W.err # "" THEN W
  ELSE moveTogether([W EXCEPT !.sessions = Append(@, k),
                              !.sessionCount[k] = @ + 1], k)

closeSupportSession(W, k) ==
  IF W.err # "" THEN W
  ELSE IF IndexOf(W.sessions, k) = 0 THEN Throw(W, "Could not find support session!")
  ELSE [W EXCEPT !.sessions = Splice1(@, IndexOf(W.sessions, k))]

\* removeFromQueue without the index check: splice(-1, 1) takes the last entry
removeFromQueueUnchecked(W, q) ==
  IF W.err # "" THEN W
  ELSE IF IndexOf(W.queue, q) = 0
  THEN (IF W.queue = << >> THEN W
        ELSE [W EXCEPT !.queue = SubSeq(@, 1, Len(@) - 1),
                       !.removed[W.queue[Len(W.queue)]] = @ + 1])
  ELSE [W EXCEPT !.queue = Splice1(@, IndexOf(W.queue, q)),
                 !.removed[q] = @ + 1]

removeFromQueue(W, q) ==
  IF W.err # "" THEN W
  ELSE IF IndexOf(W.queue, q) = 0 THEN Throw(W, "Could not find queue entry!")
  ELSE [W EXCEPT !.queue = Splice1(@, IndexOf(W.queue, q)),
                 !.removed[q] = @ + 1]

\* setSupporter that also stamps the ticket with a resolve date
setSupporterStampsResolvedDate(W, k, uid) ==
  IF W.err # "" THEN W
  ELSE saveTicket([W EXCEPT !.ticket[k].supporter = uid,
                            !.ticket[k].resolvedDate = now], k)

setSupporter(W, k, uid) ==
  IF W.err # "" THEN W
  ELSE saveTicket([W EXCEPT !.ticket[k].supporter = uid], k)

closeTicketUnsaved(W, k, text) ==
  IF W.err # "" THEN W
  ELSE [W EXCEPT !.ticket[k].status = "closed",
                 !.ticket[k].resolvedText = text,
                 !.ticket[k].resolvedDate = now]

closeTicket(W, k, text) ==
  IF W.err # "" THEN W
  ELSE saveTicket([W EXCEPT !.ticket[k].status = "closed",
                            !.ticket[k].resolvedText = text,
                            !.ticket[k].resolvedDate = now], k)

\* Queue.elevate with the session created first and the queue entry removed last
elevateSessionFirst(W, q, uid) ==
  removeFromQueue(setSupporter(createSupportSession(W, W.queues[q]), W.queues[q], uid), q)

\* Queue.elevate
elevate(W, q, uid) ==
  createSupportSession(setSupporter(removeFromQueue(W, q), W.queues[q], uid), W.queues[q])

\* a resolve that closes the ticket and leaves the session in the list
resolveKeepsSession(W, k, reason) == closeTicket(W, k, reason)

\* SupportSession.resolve; the chat to the issuer is inside try/catch
resolve(W, k, reason) ==
  LET W1 == closeSupportSession(W, k)
      W2 == IF W1.err = "" /\ W1.ticket[k].issuer \in online
            THEN send(W1, W1.ticket[k].issuer, "Ticket has been marked as resolved! You can rate")
            ELSE W1
  IN  closeTicket(W2, k, reason)

-----------------------------------------------------------------------------
(* SupportResponseChallenge *)

request(W, i) ==
  IF W.err # "" THEN W
  ELSE IF W.ticket[W.queues[W.src[i].queue]].issuer \notin online
  THEN Throw(W, "Client not found")
  ELSE chat(W, W.src[i].uid, "New support request")

\* the ACCEPT callback that also retires the other offers made for the ticket
acceptedRetiresOtherOffers(W, i) ==
  IF W.err # "" THEN W
  ELSE IF W.src[i].uid \notin online THEN Throw(W, "Client not found")
  ELSE LET W1 == elevate(W, W.src[i].queue, W.src[i].uid)
       IN  [W1 EXCEPT !.src = [j \in 1 .. Len(W1.src) |->
                                 IF j # i /\ W1.src[j].queue = W1.src[i].queue
                                 THEN [W1.src[j] EXCEPT !.state = TIMEOUT]
                                 ELSE W1.src[j]]]

accepted(W, i) ==
  IF W.err # "" THEN W
  ELSE IF W.src[i].uid \notin online THEN Throw(W, "Client not found")
  ELSE elevate(W, W.src[i].queue, W.src[i].uid)

\* the states setCallback registered in the constructor
hasCallbackSRC(state) == state \in {REQUEST, ACCEPT}

\* Challenge.challenge that files an entry without callback as UNRESOLVED
challengeSRCMarksUnresolved(W, i) ==
  IF W.err # "" THEN W
  ELSE IF ~hasCallbackSRC(W.src[i].state)
  THEN [W EXCEPT !.src[i].state = UNRESOLVED]
  ELSE IF W.src[i].state = REQUEST THEN request(W, i)
  ELSE accepted(W, i)

\* Challenge.challenge for a SupportResponseChallenge
challengeSRC(W, i) ==
  IF W.err # "" THEN W
  ELSE IF ~hasCallbackSRC(W.src[i].state)
  THEN Throw(W, "No function available to execute next")
  ELSE IF W.src[i].state = REQUEST THEN request(W, i)
  ELSE accepted(W, i)

\* Challenge.nextState: setState, then challenge
nextStateSRC(W, i, state) ==
  IF W.err # "" THEN W
  ELSE challengeSRC([W EXCEPT !.src[i].state = state], i)

start(W, i) == nextStateSRC(W, i, REQUEST)

accept(W, i) == nextStateSRC(W, i, ACCEPT)

-----------------------------------------------------------------------------
(* ChallengeQueue *)

NewChallengeQueue == [exists |-> TRUE, active |-> None, challenges |-> << >>]

\* ChallengeQueue.next: shift, set active, start
nextTakesLast(W, uid) ==
  IF W.err # "" THEN W
  ELSE IF W.challengeQueue[uid].challenges = << >> THEN W
  ELSE LET ch == W.challengeQueue[uid].challenges
       IN  start([W EXCEPT !.challengeQueue[uid].challenges = SubSeq(ch, 1, Len(ch) - 1),
                           !.challengeQueue[uid].active = ch[Len(ch)]],
                 ch[Len(ch)])

\* ChallengeQueue.next that starts the shifted entry without making it active
nextStartsWithoutActivating(W, uid) ==
  IF W.err # "" THEN W
  ELSE IF W.challengeQueue[uid].challenges = << >> THEN W
  ELSE start([W EXCEPT !.challengeQueue[uid].challenges = Tail(@)],
             Head(W.challengeQueue[uid].challenges))

next(W, uid) ==
  IF W.err # "" THEN W
  ELSE IF W.challengeQueue[uid].challenges = << >> THEN W
  ELSE start([W EXCEPT !.challengeQueue[uid].challenges = Tail(@),
                       !.challengeQueue[uid].active = Head(W.challengeQueue[uid].challenges)],
             Head(W.challengeQueue[uid].challenges))

\* stopActive that clears the active slot without starting the next entry
stopActiveKeepsPending(W, uid) ==
  IF W.err # "" THEN W
  ELSE [W EXCEPT !.challengeQueue[uid].active = None]

stopActive(W, uid) ==
  IF W.err # "" THEN W
  ELSE next([W EXCEPT !.challengeQueue[uid].active = None], uid)

addActivatesInPlace(W, uid, item) ==
  IF W.err # "" THEN W
  ELSE LET W1 == [W EXCEPT !.challengeQueue[uid].challenges = Append(@, item)]
       IN  IF W1.challengeQueue[uid].active = None
           THEN start([W1 EXCEPT !.challengeQueue[uid].active = item], item)
           ELSE W1

add(W, uid, item) ==
  IF W.err # "" THEN W
  ELSE LET W1 == [W EXCEPT !.challengeQueue[uid].challenges = Append(@, item)]
       IN  IF W1.challengeQueue[uid].active = None THEN next(W1, uid) ELSE W1

\* a decline that also takes the ticket out of the open queue
declineWithdrawsTicket(W, i) ==
  IF W.err # "" THEN W
  ELSE removeFromQueue([W EXCEPT !.src[i].state = DECLINE], W.src[i].queue)

\* SupportResponseChallenge.decline
decline(W, i) ==
  LET W1 == nextStateSRC(W, i, DECLINE)
  IN  IF W1.err # "" THEN W1
      ELSE IF W1.src[i].challengeQueue THEN stopActive(W1, W1.src[i].uid)
      ELSE W1

-----------------------------------------------------------------------------
(* Support: offers *)

addChallengeQueue(W, uid, item) ==
  IF W.err # "" THEN W
  ELSE LET W1 == IF W.challengeQueue[uid].exists THEN W
                 ELSE [W EXCEPT !.challengeQueue[uid] = NewChallengeQueue]
           W2 == add(W1, uid, item)
       IN  IF W2.err # "" THEN W2 ELSE [W2 EXCEPT !.src[item].challengeQueue = TRUE]

\* getOnlineSupporters without the department filter
getOnlineSupportersAnyDepartment(department) ==
  SelectSeq(ClientOrder, LAMBDA c : c \in online /\ isSupporter(c, ""))

\* Support.getOnlineSupporters as the list the backend returns
getOnlineSupporters(department) ==
  SelectSeq(ClientOrder, LAMBDA c : c \in online /\ isSupporter(c, department))

RECURSIVE offerTo(_, _, _)
\* the forEach of addQueue: one new SupportResponseChallenge per supporter
offerTo(W, q, uids) ==
  IF W.err # "" \/ uids = << >> THEN W
  ELSE LET item == Len(W.src) + 1
           W1 == [W EXCEPT !.src = Append(@, [queue |-> q, uid |-> Head(uids),
                                             state |-> WAITING, challengeQueue |-> FALSE])]
       IN  offerTo(addChallengeQueue(W1, Head(uids), item), q, Tail(uids))

addQueue(W, k) ==
  IF W.err # "" THEN W
  ELSE LET q == Len(W.queues) + 1
           W1 == [W EXCEPT !.queues = Append(@, k),
                           !.removed = Append(@, 0),
                           !.queue = Append(@, q)]
       IN  offerTo(W1, q, getOnlineSupporters(W.ticket[k].role.department))

\* pendingRequest.slice(...) returns a copy and leaves pendingRequest as it is
getChallengeComplete(W, k) == addQueue(W, k)

-----------------------------------------------------------------------------
(* RequestChallenge *)

checkInquiry(W, k) ==
  chat(chat(W, W.ticket[k].issuer, "What inquiry do you have?"),
       W.ticket[k].issuer, "departments")

describeIssue(W, k) ==
  chat(W, W.ticket[k].issuer, "Please describe your issue")

\* complete with a second save started before the first has assigned the id
completeSavesTwice(W, k) ==
  IF W.err # "" THEN W
  ELSE LET W1 == saveTicket([W EXCEPT !.ticket[k].created = now], k)
           W2 == chat(W1, W1.ticket[k].issuer, "Your issue has been forwarded")
       IN  getChallengeComplete(saveTicket(W2, k), k)

complete(W, k) ==
  IF W.err # "" THEN W
  ELSE LET W1 == saveTicket([W EXCEPT !.ticket[k].created = now], k)
           W2 == chat(W1, W1.ticket[k].issuer, "Your issue has been forwarded")
       IN  getChallengeComplete(W2, k)

\* Challenge.challenge for a RequestChallenge: all three states have a callback
challengeRC(W, k) ==
  IF W.err # "" THEN W
  ELSE IF W.pendingRequest[k] = ASK_INQUIRY THEN checkInquiry(W, k)
  ELSE IF W.pendingRequest[k] = DESCRIBE_ISSUE THEN describeIssue(W, k)
  ELSE complete(W, k)

nextStateRC(W, k, state) ==
  IF W.err # "" THEN W
  ELSE challengeRC([W EXCEPT !.pendingRequest[k] = state], k)

\* index is zero-based; parent.roles[index] is undefined outside the array
setInquiryNoRoleCheck(W, k, index) ==
  IF index < 0 \/ index >= Len(ConfigRoles)
  THEN nextStateRC(W, k, DESCRIBE_ISSUE)
  ELSE nextStateRC([W EXCEPT !.ticket[k].role = Role(ConfigRoles[index + 1])],
                   k, DESCRIBE_ISSUE)

setInquiry(W, k, index) ==
  IF index < 0 \/ index >= Len(ConfigRoles)
  THEN nextStateRC(W, k, ASK_INQUIRY)
  ELSE nextStateRC([W EXCEPT !.ticket[k].role = Role(ConfigRoles[index + 1])],
                   k, DESCRIBE_ISSUE)

setIssueLongerThanTen(W, k, issue) ==
  IF Len(issue) <= 10
  THEN nextStateRC(chat(W, W.ticket[k].issuer, "Your issue description seems kinda short!"),
                   k, DESCRIBE_ISSUE)
  ELSE nextStateRC([W EXCEPT !.ticket[k].issue = issue], k, DONE)

setIssue(W, k, issue) ==
  IF Len(issue) < 10
  THEN nextStateRC(chat(W, W.ticket[k].issuer, "Your issue description seems kinda short!"),
                   k, DESCRIBE_ISSUE)
  ELSE nextStateRC([W EXCEPT !.ticket[k].issue = issue], k, DONE)

-----------------------------------------------------------------------------
(* Support: lookups used by the permission checks *)

\* pendingRequest.find(req => client.uid() === req.ticket.issuer); 0 when none
clientGetChallenge(c) ==
  LET mine == {k \in 1 .. Len(pendingRequest) : ticket[k].issuer = c}
  IN  IF mine = {} THEN 0 ELSE CHOOSE k \in mine : \A j \in mine : k <= j

\* the permission check without the comparison of the challenge's state
clientInRequestChallengeStateAny(c, state) == clientGetChallenge(c) # 0

clientInRequestChallengeState(c, state) ==
  /\ clientGetChallenge(c) # 0
  /\ pendingRequest[clientGetChallenge(c)] = state

\* the permission check without the comparison of the active entry's state
clientInChallengeQueueStateAny(c, state) ==
  /\ challengeQueue[c].exists
  /\ challengeQueue[c].active # None

clientInChallengeQueueState(c, state) ==
  /\ challengeQueue[c].exists
  /\ challengeQueue[c].active # None
  /\ src[challengeQueue[c].active].state = state

\* sessions.find(session => session.ticket.supporter === client.uid()); 0 when none
getClientSupportSession(c) ==
  LET mine == {i \in 1 .. Len(sessions) : ticket[sessions[i]].supporter = c}
  IN  IF mine = {} THEN 0 ELSE CHOOSE i \in mine : \A j \in mine : i <= j

\* the age test of the rate command
tooOldToRateStrict(entry) == entry.resolvedDate < now - MAX_AGE_FOR_RATING

tooOldToRate(entry) == entry.resolvedDate <= now - MAX_AGE_FOR_RATING

-----------------------------------------------------------------------------
(* Handlers *)

Op(op, who, W) ==
  [op |-> op, who |-> who,
   err |-> W.err, msgs |-> W.msgs, writes |-> W.writes, moved |-> W.moved,
   interleaved |-> W.interleaved]

\* the handler ran: its continuations run, then the next event is taken
CommitHandler(W0, op, who) ==
  LET W == runMicrotasks(W0)
  IN  /\ pendingRequest' = W.pendingRequest
      /\ ticket' = W.ticket
      /\ queues' = W.queues
      /\ queue' = W.queue
      /\ sessions' = W.sessions
      /\ src' = W.src
      /\ challengeQueue' = W.challengeQueue
      /\ store' = W.store
      /\ removed' = W.removed
      /\ sessionCount' = W.sessionCount
      /\ inOrder' = W.inOrder
      /\ lastOp' = Op(op, who, W)
      /\ UNCHANGED <<online, now, rt>>

\* a command or event handler of the loaded plugin ran
Commit(W0, op, who) ==
  /\ CommitHandler(W0, op, who)
  /\ UNCHANGED plugin

\* await this.isBlacklisted(client) read without the await: a Promise is truthy
isBlacklistedNotAwaited(c) == TRUE

\* Support.isBlacklisted / BaseStore.isBlacklisted, awaited
isBlacklisted(c) == c \in store.blacklist

\* clientMove into the support channel by a client who is not a supporter
RequestSupport(c) ==
  /\ plugin.events
  /\ c \in online
  /\ ~isSupporter(c, "")
  /\ IF isBlacklisted(c)
     THEN Commit(send(Begin, c, "You are blacklisted from support!"), "BLACKLISTED", c)
     ELSE /\ Len(pendingRequest) < MaxRequests
          /\ LET k == Len(pendingRequest) + 1
                 W == [Begin EXCEPT !.pendingRequest = Append(@, ASK_INQUIRY),
                                    !.ticket = Append(@, NewTicket(c)),
                                    !.sessionCount = Append(@, 0),
                                    !.inOrder = Append(@, TRUE)]
             IN  Commit(challengeRC(W, k), "requestSupport", c)

\* command "request <inquiry>": checkPermission, the argument's min and max, exec
Request(c, index) ==
  /\ plugin.commands
  /\ c \in online
  /\ clientInRequestChallengeState(c, ASK_INQUIRY)
  /\ index >= 0
  /\ index <= Len(ConfigRoles) - 1
  /\ Commit(setInquiry(Begin, clientGetChallenge(c), index), "request", c)

\* command "describe <issue>"
Describe(c, issue) ==
  /\ plugin.commands
  /\ c \in online
  /\ clientInRequestChallengeState(c, DESCRIBE_ISSUE)
  /\ Commit(setIssue(Begin, clientGetChallenge(c), issue), "describe", c)

\* an accept command that retires the accepted offer and starts the next one
AcceptThenStopActive(c) ==
  /\ plugin.commands
  /\ c \in online
  /\ clientInChallengeQueueState(c, REQUEST)
  /\ Commit(stopActive(accept(Begin, challengeQueue[c].active), c), "accept", c)

\* command "accept"
Accept(c) ==
  /\ plugin.commands
  /\ c \in online
  /\ clientInChallengeQueueState(c, REQUEST)
  /\ Commit(accept(Begin, challengeQueue[c].active), "accept", c)

\* command "decline"
Decline(c) ==
  /\ plugin.commands
  /\ c \in online
  /\ clientInChallengeQueueState(c, REQUEST)
  /\ Commit(decline(Begin, challengeQueue[c].active), "decline", c)

\* command "resolve <reason>"
Resolve(c, reason) ==
  /\ plugin.commands
  /\ c \in online
  /\ getClientSupportSession(c) # 0
  /\ Commit(send(resolve(Begin, sessions[getClientSupportSession(c)], reason),
                 c, "Ticket has been marked as resolved!"),
            "resolve", c)

\* the test on the entry found by the rate command without the issuer comparison
isOwnEntryAnyIssuer(found, c) == found # << >>

\* entry && entry.issuer === client.uid() of the rate command
isOwnEntry(found, c) == found # << >> /\ Head(found).issuer = c

\* command "rate <ticket> <rating>": ticket min(0), rating min(0).max(5)
Rate(c, id, rating) ==
  /\ plugin.commands
  /\ c \in online
  /\ ~isSupporter(c, "")
  /\ id >= 0
  /\ rating >= 0
  /\ rating <= 5
  /\ LET found == getTicketBy(store.tickets, "id", id)
     IN  IF ~isOwnEntry(found, c)
         THEN Commit(send(Begin, c, "No ticket with this id found!"), "rate", c)
         ELSE IF tooOldToRate(Head(found))
         THEN Commit(send(Begin, c, "Ticket is too old to get rated!"), "rate", c)
         ELSE Commit(send([Begin EXCEPT
                             !.store.tickets =
                                 updateTicketMap(@, [Head(found) EXCEPT !.rating = rating]),
                             !.writes = @ + 1],
                          c, "You rated ticket"),
                     "rate", c)

\* BaseStore.reset
reset(W) ==
  [W EXCEPT !.store = [blacklist |-> {}, tickets |-> << >>, ticketId |-> 1],
            !.writes = @ + 1]

\* the test of the dev command, action && 0x01 === 1: === binds tighter than &&
devResetsStore(action) == action # 0 /\ (1 = 1)

\* command "dev <action>"
Dev(c, action) ==
  /\ plugin.commands
  /\ c \in online
  /\ hasPermissionDeveloper(c)
  /\ action > 0
  /\ IF devResetsStore(action)
     THEN Commit(send(send(reset(Begin), c, "0x01: Store has been resetted..."), c, "done"),
                 "dev", c)
     ELSE Commit(send(Begin, c, "done"), "dev", c)

\* a client connects to or leaves the server
Connect(c) ==
  /\ c \notin online
  /\ online' = online \cup {c}
  /\ lastOp' = Op("connect", "", Begin)
  /\ UNCHANGED <<now, pendingRequest, ticket, queues, queue, sessions, src,
                 challengeQueue, store, removed, sessionCount, inOrder, rt, plugin>>

Disconnect(c) ==
  /\ c \in online
  /\ online' = online \ {c}
  /\ lastOp' = Op("disconnect", "", Begin)
  /\ UNCHANGED <<now, pendingRequest, ticket, queues, queue, sessions, src,
                 challengeQueue, store, removed, sessionCount, inOrder, rt, plugin>>

\* time passes; the clock is read for created, resolvedDate and the rating
\* window, and its steps are taken from the first resolved ticket on
Tick ==
  /\ \E i \in 1 .. Len(store.tickets) : store.tickets[i].status = "closed"
  /\ now < StartTime + MaxTicks * TickStep
  /\ now' = now + TickStep
  /\ lastOp' = Op("tick", "", Begin)
  /\ UNCHANGED <<online, pendingRequest, ticket, queues, queue, sessions, src,
                 challengeQueue, store, removed, sessionCount, inOrder, rt, plugin>>

-----------------------------------------------------------------------------
(* The plugin after load: Support constructed, setup done on an empty store *)

InitPlugin ==
  /\ now = StartTime
  /\ pendingRequest = << >>
  /\ ticket = << >>
  /\ queues = << >>
  /\ queue = << >>
  /\ sessions = << >>
  /\ src = << >>
  /\ challengeQueue = [c \in Clients |-> [exists |-> FALSE, active |-> None, challenges |-> << >>]]
  /\ lastOp = Op("load", "", [err |-> "", msgs |-> << >>, writes |-> 0, moved |-> {},
                              interleaved |-> FALSE])
  /\ removed = << >>
  /\ sessionCount = << >>
  /\ inOrder = << >>

\* load handler done: setup passed the version check of BaseStore
Loaded ==
  [version |-> REQUIRED_STORE_VERSION, phase |-> "ready", storeSetup |-> TRUE,
   commands |-> TRUE, events |-> TRUE]

\* a store without tickets, after BaseStore.setup
InitStore ==
  store \in {[blacklist |-> b, tickets |-> << >>, ticketId |-> 1] : b \in BlacklistAtLoad}

Init ==
  /\ InitPlugin
  /\ InitStore
  /\ plugin = Loaded
  /\ online \in {Clients \ a : a \in AbsentAtLoad}
  /\ rt = [in |-> NewTicket("u1"), out |-> NewTicket("u1"), done |-> FALSE]

Next ==
  \/ \E c \in Clients : RequestSupport(c)
  \/ \E c \in Clients, index \in Inquiries : Request(c, index)
  \/ \E c \in Clients, issue \in Issues : Describe(c, issue)
  \/ \E c \in Clients : Accept(c)
  \/ \E c \in Clients : Decline(c)
  \/ \E c \in Clients, reason \in Reasons : Resolve(c, reason)
  \/ \E c \in Clients, id \in 0 .. MaxTicketArg, rating \in Ratings : Rate(c, id, rating)
  \/ \E c \in Roaming : Connect(c)
  \/ \E c \in Roaming : Disconnect(c)
  \/ Tick

\* the productive commands on a loaded plugin; the load handler itself and the
\* dev command ("not for productive environment") are part of SpecSetup
Spec == Init /\ [][Next]_vars

\* a loaded plugin with everybody online and nothing persisted, for the
\* specifications that drive one class through its methods
InitUnit ==
  /\ InitPlugin
  /\ store = [blacklist |-> {}, tickets |-> << >>, ticketId |-> 1]
  /\ plugin = Loaded
  /\ online = Clients
  /\ rt = [in |-> NewTicket("u1"), out |-> NewTicket("u1"), done |-> FALSE]

-----------------------------------------------------------------------------
(* The load handler: Support.setup on a storage provider and its persisted data *)

StoreVersions == {REQUIRED_STORE_VERSION, REQUIRED_STORE_VERSION + 1}

StoredOpen ==
  serialize([NewTicket("u2") EXCEPT !.id = 1, !.issue = "1234567890",
                                    !.created = StartTime,
                                    !.role = Role(ConfigRoles[1])])

StoredClosed ==
  [StoredOpen EXCEPT !.id = 2, !.status = "closed", !.supporter = "s1",
                     !.resolvedText = "driver reinstalled", !.resolvedDate = StartTime]

\* what store.getInstance returns at load; ticketId Undefined: no config saved yet
StoredAtLoad ==
  {[blacklist |-> b, tickets |-> << >>, ticketId |-> Undefined] : b \in {{}}}
  \cup {[blacklist |-> b, tickets |-> ts, ticketId |-> 3] :
           b \in BlacklistAtLoad, ts \in {<<StoredOpen>>, <<StoredOpen, StoredClosed>>}}

\* the version test with the comparison only catching an older store
versionMismatchOlder(version) == version < REQUIRED_STORE_VERSION

\* this.store.version !== this.REQUIRED_STORE_VERSION
versionMismatch(version) == version # REQUIRED_STORE_VERSION

\* BaseStore.setup: arrays exist, config = { ticketId: 1, ...config }
storeSetup(W) ==
  [W EXCEPT !.store.ticketId = IF @ = Undefined THEN 1 ELSE @]

RECURSIVE loadTickets(_, _)
\* tickets.forEach of setup: an invalid ticket is ignored, a valid one queued
loadTickets(W, entries) ==
  IF W.err # "" \/ entries = << >> THEN W
  ELSE IF ~isValid(fromStore(Head(entries))) THEN loadTickets(W, Tail(entries))
  ELSE LET k == Len(W.ticket) + 1
           W1 == [W EXCEPT !.ticket = Append(@, fromStore(Head(entries))),
                           !.pendingRequest = Append(@, Undefined),
                           !.sessionCount = Append(@, 0),
                           !.inOrder = Append(@, TRUE)]
       IN  loadTickets(addQueue(W1, k), Tail(entries))

\* Support.setup up to the registration of the commands
setup(W) ==
  LET W1 == storeSetup(W)
  IN  loadTickets(W1, getTicketBy(W1.store.tickets, "status", "open"))

\* event "load": new Support, await support.setup, then the event handlers
Load ==
  /\ plugin.phase = "constructed"
  /\ IF versionMismatch(plugin.version)
     THEN /\ plugin' = [plugin EXCEPT !.phase = "failed"]
          /\ lastOp' = Op("load", "", Throw(Begin, "Could not initialize Support Script!"))
          /\ UNCHANGED <<online, now, pendingRequest, ticket, queues, queue, sessions,
                         src, challengeQueue, store, removed, sessionCount, inOrder, rt>>
     ELSE /\ CommitHandler(setup(Begin), "load", "")
          /\ plugin' = [plugin EXCEPT !.phase = "ready", !.storeSetup = TRUE,
                                      !.commands = TRUE, !.events = TRUE]

InitSetup ==
  /\ InitPlugin
  /\ store \in StoredAtLoad
  /\ online = Clients
  /\ rt = [in |-> NewTicket("u1"), out |-> NewTicket("u1"), done |-> FALSE]
  /\ plugin \in {[version |-> v, phase |-> "constructed", storeSetup |-> FALSE,
                   commands |-> FALSE, events |-> FALSE] : v \in StoreVersions}

NextSetup ==
  \/ Load
  \/ \E c \in Roaming : RequestSupport(c)
  \/ \E c \in Roaming, index \in Inquiries : Request(c, index)
  \/ \E c \in Roaming, issue \in Issues : Describe(c, issue)
  \/ \E c \in Supporters : Accept(c)
  \/ \E c \in Supporters, reason \in Reasons : Resolve(c, reason)
  \/ \E c \in Clients, action \in DevActions : Dev(c, action)
  \/ \E c \in Roaming : Connect(c)
  \/ \E c \in Roaming : Disconnect(c)

SpecSetup == InitSetup /\ [][NextSetup]_vars

-----------------------------------------------------------------------------
(* RequestChallenge driven through its public methods, in any state *)

CallSetInquiry(k, index) ==
  /\ k \in 1 .. Len(pendingRequest)
  /\ Len(store.tickets) < MaxDone
  /\ Commit(setInquiry([Begin EXCEPT !.inOrder[k] = @ /\ pendingRequest[k] = ASK_INQUIRY],
                       k, index),
            "setInquiry", ticket[k].issuer)

CallSetIssue(k, issue) ==
  /\ k \in 1 .. Len(pendingRequest)
  /\ Len(store.tickets) < MaxDone
  /\ Commit(setIssue([Begin EXCEPT !.inOrder[k] = @ /\ pendingRequest[k] = DESCRIBE_ISSUE],
                     k, issue),
            "setIssue", ticket[k].issuer)

NextRC ==
  \/ \E c \in Roaming : RequestSupport(c)
  \/ \E k \in 1 .. MaxRequests, index \in Inquiries : CallSetInquiry(k, index)
  \/ \E k \in 1 .. MaxRequests, issue \in Issues : CallSetIssue(k, issue)
  \/ \E c \in Roaming : Connect(c)
  \/ \E c \in Roaming : Disconnect(c)

SpecRC == InitUnit /\ [][NextRC]_vars

-----------------------------------------------------------------------------
(* ChallengeQueue driven through add and stopActive *)

\* Support.addChallengeQueue(uid, new SupportResponseChallenge({ queue, uid }))
CallAdd(uid, q) ==
  /\ q \in 1 .. Len(queues)
  /\ Len(src) < MaxItems
  /\ Commit(offerTo(Begin, q, <<uid>>), "add", uid)

CallStopActive(uid) ==
  /\ challengeQueue[uid].exists
  /\ Commit(stopActive(Begin, uid), "stopActive", uid)

NextCQ ==
  \/ \E c \in Roaming : RequestSupport(c)
  \/ \E c \in Roaming, index \in Inquiries : Request(c, index)
  \/ \E c \in Roaming, issue \in Issues : Describe(c, issue)
  \/ \E uid \in Supporters, q \in 1 .. MaxRequests : CallAdd(uid, q)
  \/ \E uid \in Supporters : CallStopActive(uid)
  \/ \E c \in Roaming : Connect(c)
  \/ \E c \in Roaming : Disconnect(c)

SpecCQ == InitUnit /\ [][NextCQ]_vars

-----------------------------------------------------------------------------
(* Ticket.serialize followed by Ticket.fromStore *)

\* tickets as the Ticket methods build them: setRole, setIssue, setCreated, an
\* id from save, then optionally setSupporter, closeTicket and rate
RoundTripTickets ==
  { [NewTicket(u) EXCEPT !.id = id, !.issue = "1234567890", !.created = StartTime,
                         !.role = Role(ConfigRoles[r]), !.supporter = sup,
                         !.status = IF closed THEN "closed" ELSE "open",
                         !.resolvedText = IF closed THEN text ELSE "_EMPTY_",
                         !.resolvedDate = IF closed THEN StartTime ELSE 0,
                         !.rating = rating] :
      u \in Requesters, id \in {0, 2}, r \in 1 .. Len(ConfigRoles),
      sup \in {"", "s1"}, closed \in BOOLEAN, text \in Reasons,
      rating \in {Undefined, 0, 4} }

InitRT ==
  /\ InitPlugin
  /\ InitStore
  /\ plugin = Loaded
  /\ online = Clients
  /\ rt \in {[in |-> t, out |-> t, done |-> FALSE] : t \in RoundTripTickets}

RoundTrip ==
  /\ ~rt.done
  /\ rt' = [in |-> rt.in, out |-> fromStore(serialize(rt.in)), done |-> TRUE]
  /\ UNCHANGED <<online, now, pendingRequest, ticket, queues, queue, sessions, src,
                 challengeQueue, store, lastOp, removed, sessionCount, inOrder, plugin>>

SpecRT == InitRT /\ [][RoundTrip]_vars

-----------------------------------------------------------------------------
(* BaseStore driven through addBlacklist, next to the events that consult it *)

\* BaseStore.isBlacklisted(uid) as called: the Promise object it returns
isBlacklistedPromise(W, uid) == [resolved |-> uid \in W.store.blacklist]

\* ToBoolean of an object: a Promise is truthy whatever it resolves to
Truthy(object) == TRUE

\* BaseStore.addBlacklist: if (this.isBlacklisted(entry.uid)) reject, else append
addBlacklist(W, uid) ==
  IF W.err # "" THEN W
  ELSE IF Truthy(isBlacklistedPromise(W, uid))
  THEN Throw(W, "the uid is already blacklisted")
  ELSE [W EXCEPT !.store.blacklist = @ \cup {uid}, !.writes = @ + 1]

CallAddBlacklist(uid) ==
  /\ plugin.storeSetup
  /\ Commit(addBlacklist(Begin, uid), "addBlacklist", uid)

InitBaseStore ==
  /\ InitPlugin
  /\ InitStore
  /\ plugin = Loaded
  /\ online = Clients
  /\ rt = [in |-> NewTicket("u1"), out |-> NewTicket("u1"), done |-> FALSE]

NextStore ==
  \/ \E uid \in Requesters : CallAddBlacklist(uid)
  \/ \E c \in Requesters : RequestSupport(c)
  \/ \E c \in Requesters, index \in Inquiries : Request(c, index)
  \/ \E c \in Requesters, issue \in Issues : Describe(c, issue)
  \/ \E c \in Roaming : Connect(c)
  \/ \E c \in Roaming : Disconnect(c)

SpecStore == InitBaseStore /\ [][NextStore]_vars

-----------------------------------------------------------------------------
(* Properties *)

\* C1: a ticket leaves the open queue at most once and gets at most one
\* session; once one of its offers is in ACCEPT it has left the queue exactly
\* once and has exactly one session, however many supporters accepted it, and
\* every removal from the open queue is the removal of an accepted ticket.
C1_AcceptOnce ==
  /\ \A q \in 1 .. Len(queues) :
        /\ removed[q] <= 1
        /\ (removed[q] = 0) = (IndexOf(queue, q) # 0)
        /\ removed[q] = 1 => \E i \in 1 .. Len(src) : src[i].queue = q /\ src[i].state = ACCEPT
  /\ \A k \in 1 .. Len(ticket) : sessionCount[k] <= 1
  /\ \A i \in 1 .. Len(src) :
        src[i].state = ACCEPT =>
           /\ removed[src[i].queue] = 1
           /\ sessionCount[queues[src[i].queue]] = 1

\* two supporters have accepted the same ticket while another ticket is open
C1_Witness ==
  /\ \E i, j \in 1 .. Len(src) :
        /\ i # j
        /\ src[i].queue = src[j].queue
        /\ src[i].state = ACCEPT
        /\ src[j].state = ACCEPT
  /\ queue # << >>


DeclineStep(c) ==
  /\ clientInChallengeQueueState(c, REQUEST)
  /\ src'[challengeQueue[c].active].state = DECLINE

\* C2: when a supporter declines the active offer (its state goes from REQUEST
\* to DECLINE), the supporter's ChallengeQueue clears its active entry and
\* starts the earliest pending offer: afterwards the active entry is that
\* offer, in REQUEST, or there is no active entry when nothing was pending.
C2_DeclineAdvances ==
  [][\A c \in Supporters :
        DeclineStep(c) =>
           IF challengeQueue[c].challenges = << >>
           THEN challengeQueue'[c].active = None
           ELSE /\ challengeQueue'[c].active = Head(challengeQueue[c].challenges)
                /\ src'[Head(challengeQueue[c].challenges)].state = REQUEST]_vars

AcceptStep(c) ==
  /\ clientInChallengeQueueState(c, REQUEST)
  /\ src'[challengeQueue[c].active].state = ACCEPT

\* C3: when a supporter accepts the active offer, that offer is retired from
\* the active slot and the queue advances: an offer pending behind it is
\* started (becomes active, in REQUEST).
C3_AcceptAdvances ==
  [][\A c \in Supporters :
        AcceptStep(c) =>
           /\ challengeQueue'[c].active # challengeQueue[c].active
           /\ challengeQueue[c].challenges # << >> =>
                 /\ challengeQueue'[c].active = Head(challengeQueue[c].challenges)
                 /\ src'[Head(challengeQueue[c].challenges)].state = REQUEST]_vars

\* an offer waiting behind an active one is never taken off the pending list:
\* every pending list only grows at its end
C3_PendingStaysPending ==
  [][\A c \in Supporters :
        /\ Len(challengeQueue'[c].challenges) >= Len(challengeQueue[c].challenges)
        /\ SubSeq(challengeQueue'[c].challenges, 1, Len(challengeQueue[c].challenges))
              = challengeQueue[c].challenges]_vars

\* C4 as stated: whenever a RequestChallenge is in DONE, its ticket is valid,
\* whatever calls of setInquiry and setIssue led there.
C4_DoneIsValid ==
  \A k \in 1 .. Len(pendingRequest) :
     pendingRequest[k] = DONE => isValid(ticket[k])

\* C4: whenever a RequestChallenge is in DONE and every call so far was made
\* in the state whose command admits it (setInquiry in ASK_INQUIRY, setIssue in
\* DESCRIBE_ISSUE), its ticket is valid: non-empty issuer and issue, a
\* configured role, a positive creation time.
C4_DoneIsValidInOrder ==
  \A k \in 1 .. Len(pendingRequest) :
     pendingRequest[k] = DONE /\ inOrder[k] => isValid(ticket[k])

C4_Witness ==
  /\ lastOp.op = "setIssue"
  /\ \E k \in 1 .. Len(pendingRequest) :
        /\ pendingRequest[k] = DONE /\ inOrder[k]
        /\ ticket[k].issuer = lastOp.who
        /\ ticket[k].created = now

ShortIssueMessages(uid) ==
  << [to |-> uid, text |-> "Your issue description seems kinda short!"],
     [to |-> uid, text |-> "Please describe your issue"] >>

ShortIssueOutcome(k, issue) ==
  IF Len(issue) < 10
  THEN /\ pendingRequest' = pendingRequest
       /\ ticket' = ticket
       /\ store' = store
       /\ lastOp'.writes = 0
       /\ lastOp'.msgs = ShortIssueMessages(ticket[k].issuer)
  ELSE /\ ticket'[k].issue = issue
       /\ pendingRequest'[k] = DONE

\* C5 as stated: every setIssue call with a text shorter than 10 characters
\* leaves the challenge's state, the ticket and the store unchanged, saves
\* nothing and re-sends the describe prompt; a text of 10 characters or more
\* is accepted.
C5_ShortIssueIgnored ==
  [][\A k \in 1 .. MaxRequests, issue \in Issues :
        lastOp'.op = "setIssue" /\ CallSetIssue(k, issue)
        => ShortIssueOutcome(k, issue)]_vars

\* C5: a setIssue call on a challenge in DESCRIBE_ISSUE whose requester is
\* online, with a text shorter than 10 characters, leaves the challenge's
\* state, the ticket and the store unchanged, saves nothing and re-sends the
\* describe prompt; a text of 10 characters or more is accepted.
C5_ShortIssueIgnoredWhenDescribing ==
  [][\A k \in 1 .. MaxRequests, issue \in Issues :
        /\ lastOp'.op = "setIssue"
        /\ k <= Len(pendingRequest)
        /\ pendingRequest[k] = DESCRIBE_ISSUE
        /\ ticket[k].issuer \in online
        /\ CallSetIssue(k, issue)
        => ShortIssueOutcome(k, issue)]_vars

C5_Witness ==
  /\ lastOp.op = "setIssue"
  /\ lastOp.msgs = ShortIssueMessages(lastOp.who)
  /\ \E k \in 1 .. Len(pendingRequest) :
        /\ ticket[k].issuer = lastOp.who
        /\ pendingRequest[k] = DESCRIBE_ISSUE /\ inOrder[k]
        /\ ticket[k].issue = ""

\* C6: every ChallengeQueue has one active slot, holding nothing or one offer
\* made to that queue's supporter, and the active offer is not in the pending
\* list; no offer is pending twice.
C6_ActiveNotPending ==
  \A c \in Clients :
     LET cq == challengeQueue[c]
     IN  /\ cq.active # None =>
               /\ cq.active \in 1 .. Len(src)
               /\ src[cq.active].uid = c
               /\ \A j \in 1 .. Len(cq.challenges) : cq.challenges[j] # cq.active
         /\ \A i, j \in 1 .. Len(cq.challenges) :
               cq.challenges[i] = cq.challenges[j] => i = j

C6_Witness ==
  \E c \in Supporters :
     /\ challengeQueue[c].active # None
     /\ challengeQueue[c].challenges # << >>
     /\ src[challengeQueue[c].active].state = ACCEPT

\* C7: a ChallengeQueue is first in, first out. add puts the offer at the end
\* of the pending list, and activates the head of the list when nothing is
\* active; stopActive makes the earliest pending offer the active one, or
\* leaves the slot empty when nothing is pending.
C7_Fifo ==
  [][/\ \A uid \in Supporters :
          lastOp'.op = "stopActive" /\ lastOp'.who = uid /\ CallStopActive(uid) =>
             LET ch == challengeQueue[uid].challenges
             IN  IF ch = << >>
                 THEN challengeQueue'[uid].active = None /\ challengeQueue'[uid].challenges = << >>
                 ELSE challengeQueue'[uid].active = Head(ch) /\ challengeQueue'[uid].challenges = Tail(ch)
     /\ \A uid \in Supporters, q \in 1 .. MaxRequests :
          lastOp'.op = "add" /\ lastOp'.who = uid /\ CallAdd(uid, q) =>
             LET ch == Append(challengeQueue[uid].challenges, Len(src) + 1)
             IN  IF challengeQueue[uid].active = None
                 THEN challengeQueue'[uid].active = Head(ch) /\ challengeQueue'[uid].challenges = Tail(ch)
                 ELSE /\ challengeQueue'[uid].active = challengeQueue[uid].active
                      /\ challengeQueue'[uid].challenges = ch]_vars

C7_Witness ==
  /\ lastOp.op = "stopActive"
  /\ challengeQueue[lastOp.who].active # None
  /\ challengeQueue[lastOp.who].challenges # << >>
  /\ src[challengeQueue[lastOp.who].active].state = REQUEST

\* C8: a rate command for a stored ticket whose resolvedDate is at or before
\* now - MAX_AGE_FOR_RATING is rejected: the store is left as it was, nothing
\* is written and the sender gets a refusal.
C8_OldTicketNotRated ==
  [][\A c \in Clients, id \in 0 .. MaxTicketArg, rating \in Ratings :
        LET found == getTicketBy(store.tickets, "id", id)
        IN  /\ lastOp'.op = "rate" /\ lastOp'.who = c
            /\ found # << >>
            /\ Head(found).resolvedDate <= now - MAX_AGE_FOR_RATING
            /\ Rate(c, id, rating)
            => /\ store' = store
               /\ lastOp'.writes = 0
               /\ lastOp'.msgs \in {<<[to |-> c, text |-> "Ticket is too old to get rated!"]>>,
                                    <<[to |-> c, text |-> "No ticket with this id found!"]>>}]_vars

C8_Witness ==
  /\ lastOp.op = "rate"
  /\ lastOp.msgs = <<[to |-> lastOp.who, text |-> "Ticket is too old to get rated!"]>>
  /\ \E i \in 1 .. Len(store.tickets) :
        /\ store.tickets[i].issuer = lastOp.who
        /\ store.tickets[i].status = "closed"
        /\ store.tickets[i].resolvedDate = now - MAX_AGE_FOR_RATING
        /\ store.tickets[i].rating = Undefined

RoundTripFields ==
  {"id", "issuer", "issue", "role", "status", "supporter", "resolved",
   "resolvedText", "resolvedDate", "rating"}

\* C9: for a ticket with a configured role, building a ticket from its
\* serialized form gives back the same id, issuer, issue, role, status,
\* supporter, resolved, resolvedText, resolvedDate and rating.
C9_RoundTrip ==
  rt.done => \A f \in RoundTripFields : rt.out[f] = rt.in[f]

\* C10: a ticket that has not been persisted has id 0; a persisted ticket has
\* exactly one stored record whose id is the ticket's id, and it is a record
\* of that ticket.
C10_OneRecordPerTicket ==
  \A k \in 1 .. Len(ticket) :
     LET mine == {i \in 1 .. Len(store.tickets) : store.tickets[i].id = ticket[k].id}
     IN  IF pendingRequest[k] # DONE
         THEN ticket[k].id = 0
         ELSE /\ ticket[k].id # 0
              /\ Cardinality(mine) = 1
              /\ \A i \in mine : store.tickets[i].issuer = ticket[k].issuer

ClosedTicketsResolved ==
  \A k \in 1 .. Len(ticket) :
     ticket[k].status = "closed" =>
        /\ ticket[k].resolvedText # "_EMPTY_"
        /\ ticket[k].resolvedDate > 0

\* C11: after resolve(text) the session is gone from the session list, the
\* ticket is closed with resolvedText = text and resolvedDate = the time of the
\* call, and the store holds a record of the ticket with these values; every
\* closed ticket has resolvedText and resolvedDate set.
C11_ResolveCloses ==
  /\ []ClosedTicketsResolved
  /\ [][\A c \in Supporters, reason \in Reasons :
           /\ lastOp'.op = "resolve" /\ lastOp'.who = c
           /\ Resolve(c, reason)
           => LET k == sessions[getClientSupportSession(c)]
              IN  /\ IndexOf(sessions', k) = 0
                  /\ ticket'[k].status = "closed"
                  /\ ticket'[k].resolvedText = reason
                  /\ ticket'[k].resolvedDate = now
                  /\ \E i \in 1 .. Len(store'.tickets) :
                        /\ store'.tickets[i].issuer = ticket[k].issuer
                        /\ store'.tickets[i].supporter = c
                        /\ store'.tickets[i].status = "closed"
                        /\ store'.tickets[i].resolvedText = reason
                        /\ store'.tickets[i].resolvedDate = now]_vars

C11_Witness ==
  /\ lastOp.op = "resolve" /\ lastOp.err = ""
  /\ \E k \in 1 .. Len(ticket) :
        /\ ticket[k].supporter = lastOp.who
        /\ ticket[k].status = "closed"
        /\ ticket[k].resolvedText = ""
        /\ ticket[k].resolvedDate = now
        /\ IndexOf(sessions, k) = 0
        /\ ticket[k].issuer \notin online

ElevateOrder ==
  \A q \in 1 .. Len(queues) :
     /\ IndexOf(sessions, queues[q]) # 0 => ticket[queues[q]].supporter # ""
     /\ ticket[queues[q]].supporter # "" => IndexOf(queue, q) = 0

\* C12: after supporter S accepts a ticket that is still in the open queue,
\* the ticket is out of the open queue, ticket.supporter = S, the store holds a
\* record of the ticket with supporter = S and a session for the ticket is in
\* the session list; a session exists only for a ticket with a supporter, and a
\* supporter is assigned only to a ticket already removed from the queue.
C12_AcceptElevates ==
  /\ []ElevateOrder
  /\ [][\A c \in Supporters :
           /\ lastOp'.op = "accept" /\ lastOp'.who = c
           /\ Accept(c)
           /\ IndexOf(queue, src[challengeQueue[c].active].queue) # 0
           => LET q == src[challengeQueue[c].active].queue
                  k == queues[q]
              IN  /\ IndexOf(queue', q) = 0
                  /\ ticket'[k].supporter = c
                  /\ \E i \in 1 .. Len(store'.tickets) :
                        /\ store'.tickets[i].issuer = ticket[k].issuer
                        /\ store'.tickets[i].issue = ticket[k].issue
                        /\ store'.tickets[i].supporter = c
                  /\ IndexOf(sessions', k) # 0]_vars

C12_Witness ==
  /\ lastOp.op = "accept" /\ lastOp.err # ""
  /\ \E q \in 1 .. Len(queues) :
        /\ IndexOf(queue, q) = 0
        /\ ticket[queues[q]].supporter = lastOp.who
        /\ IndexOf(sessions, queues[q]) # 0
        /\ ticket[queues[q]].issuer \notin online

\* C13: at most one RequestChallenge is registered per requester, so the
\* lookup by issuer returns the requester's only challenge.
C13_OneChallengePerRequester ==
  \A j, k \in 1 .. Len(pendingRequest) :
     ticket[j].issuer = ticket[k].issuer => j = k

\* C14: requestSupport for a blacklisted client answers BLACKLISTED, registers
\* no RequestChallenge, sends no department prompt and leaves the pending
\* requests as they were; for any other client it registers a RequestChallenge
\* in ASK_INQUIRY for that client, sends the department prompt and answers OK.
C14_BlacklistGate ==
  [][\A c \in Clients :
        /\ lastOp'.who = c
        /\ RequestSupport(c)
        => IF c \in store.blacklist
           THEN /\ lastOp'.op = "BLACKLISTED"
                /\ pendingRequest' = pendingRequest
                /\ ticket' = ticket
                /\ \A i \in 1 .. Len(lastOp'.msgs) :
                      lastOp'.msgs[i].text # "What inquiry do you have?"
           ELSE /\ lastOp'.op = "requestSupport"
                /\ pendingRequest' = Append(pendingRequest, ASK_INQUIRY)
                /\ ticket' = Append(ticket, NewTicket(c))
                /\ lastOp'.msgs[1] = [to |-> c, text |-> "What inquiry do you have?"]]_vars

C14_Witness ==
  /\ lastOp.op = "BLACKLISTED"
  /\ lastOp.who \in store.blacklist
  /\ pendingRequest # << >>
  /\ \A k \in 1 .. Len(ticket) : ticket[k].issuer # lastOp.who

\* C15: an accept or decline command runs only for a client whose own
\* ChallengeQueue has an active entry in REQUEST, and it changes no challenge
\* other than that entry; from any other client (no queue, no active entry, or
\* an active entry in another state) no accept or decline step exists.
C15_OnlyActiveRequest ==
  [][\A c \in Clients :
        lastOp'.op \in {"accept", "decline"} /\ lastOp'.who = c
        => /\ challengeQueue[c].exists
           /\ challengeQueue[c].active # None
           /\ src[challengeQueue[c].active].state = REQUEST
           /\ src[challengeQueue[c].active].uid = c
           /\ \A i \in 1 .. Len(src) :
                 src'[i] # src[i] => i = challengeQueue[c].active]_vars

C15_Witness ==
  /\ lastOp.op \in {"accept", "decline"}
  /\ src[challengeQueue[lastOp.who].active].state = DECLINE
  /\ \E c \in Supporters \ {lastOp.who} :
        /\ c \in online
        /\ challengeQueue[c].active # None
        /\ src[challengeQueue[c].active].state = ACCEPT

\* C16: a decline by one supporter leaves every other supporter's
\* ChallengeQueue (active entry, its state, pending list), every ticket and the
\* open-queue list as they were.
C16_DeclineFrame ==
  [][\A c \in Supporters :
        lastOp'.op = "decline" /\ lastOp'.who = c
        => /\ \A d \in Clients \ {c} :
                 /\ challengeQueue'[d] = challengeQueue[d]
                 /\ challengeQueue[d].active # None =>
                       src'[challengeQueue[d].active] = src[challengeQueue[d].active]
           /\ ticket' = ticket
           /\ queue' = queue
           /\ sessions' = sessions]_vars

C16_Witness ==
  /\ lastOp.op = "decline"
  /\ src[challengeQueue[lastOp.who].active].state = DECLINE
  /\ \E d \in Supporters \ {lastOp.who} :
        /\ challengeQueue[d].active # None
        /\ src[challengeQueue[d].active].state = REQUEST
        /\ src[challengeQueue[d].active].queue = src[challengeQueue[lastOp.who].active].queue
        /\ IndexOf(queue, src[challengeQueue[d].active].queue) # 0

OpenUntilAccepted ==
  /\ \A i \in 1 .. Len(src) : src[i].state \in {WAITING, REQUEST, ACCEPT, DECLINE}
  /\ \A q \in 1 .. Len(queues) :
        (IndexOf(queue, q) = 0) =>
           \E i \in 1 .. Len(src) : src[i].queue = q /\ src[i].state = ACCEPT

\* C17: a ticket leaves the open queue only in an accept step of a supporter
\* whose active entry is an offer for it; a ticket nobody accepted is in the
\* open queue, however many supporters declined; no challenge is ever in
\* TIMEOUT, COMPLETE or UNRESOLVED.
C17_LeavesOnlyByAccept ==
  /\ []OpenUntilAccepted
  /\ [][\A q \in 1 .. Len(queues) :
           IndexOf(queue, q) # 0 /\ IndexOf(queue', q) = 0
           => /\ lastOp'.op = "accept"
              /\ src[challengeQueue[lastOp'.who].active].queue = q
              /\ src'[challengeQueue[lastOp'.who].active].state = ACCEPT]_vars

C17_Witness ==
  \E q \in 1 .. Len(queues) :
     /\ IndexOf(queue, q) # 0
     /\ \E i, j \in 1 .. Len(src) :
           /\ i # j /\ src[i].queue = q /\ src[j].queue = q
     /\ \A i \in 1 .. Len(src) : src[i].queue = q => src[i].state = DECLINE

\* C18: when a ticket is added to the open queue, every client who is online
\* and in a server group of the ticket's department gets exactly one new
\* SupportResponseChallenge for it at the end of its ChallengeQueue, and no
\* other client gets one; a supporter without active entry has the new one
\* active, in REQUEST, and is sent the request prompt.
C18_FanOut ==
  [][Len(queues') = Len(queues) + 1
     => LET q == Len(queues')
            dept == ticket'[queues'[q]].role.department
            new == (Len(src) + 1) .. Len(src')
        IN  \A c \in Clients :
               LET mine == {i \in new : src'[i].uid = c}
                   member == \E r \in 1 .. Len(ConfigRoles) :
                                /\ ConfigRoles[r].department = dept
                                /\ ServerGroups(c) \cap ConfigRoles[r].sgid # {}
               IN  /\ \A i \in mine : src'[i].queue = q
                   /\ Cardinality(mine) = IF c \in online /\ member THEN 1 ELSE 0
                   /\ mine = {} => challengeQueue'[c] = challengeQueue[c]
                   /\ \A i \in mine :
                         IF challengeQueue[c].active = None
                         THEN /\ challengeQueue'[c].active = i
                              /\ challengeQueue'[c].challenges = challengeQueue[c].challenges
                              /\ src'[i].state = REQUEST
                              /\ \E n \in 1 .. Len(lastOp'.msgs) :
                                    lastOp'.msgs[n] = [to |-> c, text |-> "New support request"]
                         ELSE /\ challengeQueue'[c].active = challengeQueue[c].active
                              /\ challengeQueue'[c].challenges
                                    = Append(challengeQueue[c].challenges, i)
                              /\ src'[i].state = WAITING]_vars

C18_Witness ==
  /\ lastOp.op = "describe"
  /\ "s1" \in online /\ "s2" \in online
  /\ \E q \in 1 .. Len(queues) :
        /\ ticket[queues[q]].role.department = "tech"
        /\ \A i \in 1 .. Len(src) : src[i].queue = q => src[i].uid = "s2"
        /\ \E i \in 1 .. Len(src) :
              /\ src[i].queue = q /\ src[i].state = WAITING
              /\ challengeQueue["s2"].challenges = <<i>>

FailedSetupInert ==
  plugin.phase = "failed" =>
     /\ ~plugin.storeSetup /\ ~plugin.commands /\ ~plugin.events
     /\ queue = << >> /\ ticket = << >> /\ pendingRequest = << >>
     /\ store \in StoredAtLoad
     /\ lastOp.op \in {"load", "connect", "disconnect"}

\* C19: the load step fails exactly when the storage provider's version
\* differs from REQUIRED_STORE_VERSION; a failed setup has not called the
\* store's setup, has queued no stored ticket and has registered no command,
\* and no command ever runs afterwards.
C19_VersionGate ==
  /\ []FailedSetupInert
  /\ [][plugin.phase = "constructed" /\ plugin'.phase # "constructed"
         => IF plugin.version # REQUIRED_STORE_VERSION
            THEN /\ plugin'.phase = "failed"
                 /\ lastOp'.op = "load" /\ lastOp'.err # ""
                 /\ ~plugin'.storeSetup /\ ~plugin'.commands
                 /\ store' = store
                 /\ queue' = << >> /\ queues' = << >>
            ELSE /\ plugin'.phase = "ready"
                 /\ lastOp'.op = "load" /\ lastOp'.err = ""
                 /\ plugin'.storeSetup /\ plugin'.commands]_vars

C19_Witness ==
  /\ plugin.phase = "failed"
  /\ plugin.version = REQUIRED_STORE_VERSION + 1
  /\ lastOp.op = "load" /\ lastOp.err # ""
  /\ Len(store.tickets) = 2
  /\ store.tickets[1].status = "open"

\* C20: the dev command resets the store exactly when bit 0x01 of its action
\* is set; with that bit clear the blacklist, the tickets and the ticket-id
\* counter stay as they were.
C20_DevResetBit ==
  [][\A c \in Clients, action \in DevActions :
        /\ lastOp'.op = "dev" /\ lastOp'.who = c
        /\ Dev(c, action)
        => IF action % 2 = 1
           THEN store' = [blacklist |-> {}, tickets |-> << >>, ticketId |-> 1]
           ELSE store' = store]_vars

RatingsInRange ==
  \A i \in 1 .. Len(store.tickets) :
     store.tickets[i].rating = Undefined \/ store.tickets[i].rating \in 0 .. 5

\* C21: a rate command changes only records issued by its sender, and in
\* these only the rating; a rate command naming the id of a record issued by
\* another client is refused and leaves the store as it was; every stored
\* rating is unset or an integer in 0..5.
C21_RateOwnTicketOnly ==
  /\ []RatingsInRange
  /\ [][lastOp'.op = "rate"
         => /\ Len(store'.tickets) = Len(store.tickets)
            /\ \A i \in 1 .. Len(store.tickets) :
                  store'.tickets[i] # store.tickets[i] =>
                     /\ store.tickets[i].issuer = lastOp'.who
                     /\ \E r \in 0 .. 5 :
                           store'.tickets[i] = [store.tickets[i] EXCEPT !.rating = r]
            /\ \A id \in 0 .. MaxTicketArg, rating \in Ratings :
                  LET found == getTicketBy(store.tickets, "id", id)
                  IN  /\ found # << >>
                      /\ Head(found).issuer # lastOp'.who
                      /\ Rate(lastOp'.who, id, rating)
                      => /\ store' = store
                         /\ lastOp'.writes = 0
                         /\ lastOp'.msgs = <<[to |-> lastOp'.who,
                                              text |-> "No ticket with this id found!"]>>]_vars

\* u2 sent a rate command while every ticket id it could name is the id of a
\* record issued by u1, one of them closed, unrated and young enough to rate
C21_Witness ==
  /\ lastOp.op = "rate" /\ lastOp.who = "u2"
  /\ lastOp.msgs = <<[to |-> "u2", text |-> "No ticket with this id found!"]>>
  /\ \A id \in 0 .. MaxTicketArg :
        \E i \in 1 .. Len(store.tickets) :
           store.tickets[i].id = id /\ store.tickets[i].issuer = "u1"
  /\ \E i \in 1 .. Len(store.tickets) :
        /\ store.tickets[i].status = "closed"
        /\ store.tickets[i].rating = Undefined
        /\ store.tickets[i].resolvedDate > now - MAX_AGE_FOR_RATING

RatedOnlyWhenClosed ==
  \A i \in 1 .. Len(store.tickets) :
     store.tickets[i].rating # Undefined => store.tickets[i].status = "closed"

\* C22: every stored record that carries a rating is a record of a closed
\* ticket; a rate command naming a record whose status is still open is
\* refused, writes nothing and leaves the store as it was.
C22_RatedOnlyWhenClosed ==
  /\ []RatedOnlyWhenClosed
  /\ [][\A id \in 0 .. MaxTicketArg, rating \in Ratings :
           LET found == getTicketBy(store.tickets, "id", id)
           IN  /\ lastOp'.op = "rate"
               /\ found # << >>
               /\ Head(found).status = "open"
               /\ Rate(lastOp'.who, id, rating)
               => /\ store' = store
                  /\ lastOp'.writes = 0
                  /\ Len(lastOp'.msgs) = 1
                  /\ lastOp'.msgs[1].text \in {"Ticket is too old to get rated!",
                                                "No ticket with this id found!"}]_vars

\* a requester whose ticket is in a running session, all of its records open,
\* sent a rate command for one of them and was refused
C22_Witness ==
  /\ lastOp.op = "rate"
  /\ lastOp.msgs = <<[to |-> lastOp.who, text |-> "Ticket is too old to get rated!"]>>
  /\ \E k \in 1 .. Len(ticket) :
        /\ ticket[k].issuer = lastOp.who
        /\ ticket[k].status = "open"
        /\ IndexOf(sessions, k) # 0
  /\ \A i \in 1 .. Len(store.tickets) :
        store.tickets[i].issuer = lastOp.who =>
           store.tickets[i].status = "open" /\ store.tickets[i].rating = Undefined

\* C23: when a supporter accepts an offer for a ticket still in the open queue
\* while the ticket's requester is offline, nobody is moved, the accept handler
\* ends without an error, and the ticket stays open with the supporter assigned.
C23_OfflineStartIsNoOp ==
  [][\A c \in Supporters :
        /\ lastOp'.op = "accept" /\ lastOp'.who = c
        /\ Accept(c)
        /\ IndexOf(queue, src[challengeQueue[c].active].queue) # 0
        /\ ticket[queues[src[challengeQueue[c].active].queue]].issuer \notin online
        => LET k == queues[src[challengeQueue[c].active].queue]
           IN  /\ lastOp'.moved = {}
               /\ ticket'[k].status = "open"
               /\ ticket'[k].supporter = c
               /\ lastOp'.err = ""]_vars

\* C24: no event or command of the loaded plugin ends with the error of
\* Challenge.challenge, "No function available to execute next"; every
\* challenge() call finds a callback registered for the current state.
C24_CallbackAlwaysRegistered ==
  lastOp.err # "No function available to execute next"

\* C25: every SupportResponseChallenge in REQUEST is the active entry of the
\* ChallengeQueue of the supporter it was offered to, and every entry of a
\* pending list is in WAITING.
C25_RequestIsActive ==
  /\ \A i \in 1 .. Len(src) :
        src[i].state = REQUEST => challengeQueue[src[i].uid].active = i
  /\ \A c \in Clients :
        \A j \in 1 .. Len(challengeQueue[c].challenges) :
           src[challengeQueue[c].challenges[j]].state = WAITING

\* a supporter with an offer in REQUEST and one waiting behind it, while
\* another supporter has already answered an offer for the same ticket
C25_Witness ==
  \E c \in Supporters :
     /\ challengeQueue[c].active # None
     /\ src[challengeQueue[c].active].state = REQUEST
     /\ challengeQueue[c].challenges # << >>
     /\ \E i \in 1 .. Len(src) :
           /\ src[i].uid # c
           /\ src[i].queue = src[challengeQueue[c].active].queue
           /\ src[i].state \in {ACCEPT, DECLINE}

\* the done callback of a RequestChallenge (getChallengeComplete) wraps the
\* ticket in one new Queue object each time it runs
DoneCallbackRuns(k) == Cardinality({q \in 1 .. Len(queues) : queues[q] = k})

CompletedOnce ==
  \A k \in 1 .. Len(pendingRequest) :
     DoneCallbackRuns(k) = IF pendingRequest[k] = DONE THEN 1 ELSE 0

\* C26: under the request and describe commands the state of a
\* RequestChallenge never decreases in the order ASK_INQUIRY, DESCRIBE_ISSUE,
\* DONE; a describe command that leaves the state where it was has only
\* re-sent the prompt; a challenge in DONE stays in DONE with its ticket's
\* request data unchanged, and its done callback has run exactly once.
C26_OneWayToDone ==
  /\ []CompletedOnce
  /\ [][\A k \in 1 .. Len(pendingRequest) :
           /\ Len(pendingRequest') >= Len(pendingRequest)
           /\ pendingRequest'[k] >= pendingRequest[k]
           /\ pendingRequest[k] = DONE =>
                 /\ pendingRequest'[k] = DONE
                 /\ ticket'[k].issue = ticket[k].issue
                 /\ ticket'[k].role = ticket[k].role
                 /\ ticket'[k].created = ticket[k].created
           /\ (lastOp'.op = "describe" /\ ticket[k].issuer = lastOp'.who
                  /\ pendingRequest[k] = DESCRIBE_ISSUE
                  /\ pendingRequest'[k] = DESCRIBE_ISSUE) =>
                 /\ ticket'[k] = ticket[k]
                 /\ lastOp'.msgs = ShortIssueMessages(lastOp'.who)]_vars

\* one requester's challenge is DONE and queued once, and a second requester
\* has just been re-prompted after a description that was too short
C26_Witness ==
  /\ lastOp.op = "describe"
  /\ lastOp.msgs = ShortIssueMessages(lastOp.who)
  /\ \E j, k \in 1 .. Len(pendingRequest) :
        /\ pendingRequest[j] = DONE
        /\ DoneCallbackRuns(j) = 1
        /\ ticket[j].issuer # lastOp.who
        /\ ticket[k].issuer = lastOp.who
        /\ pendingRequest[k] = DESCRIBE_ISSUE

\* C27: addBlacklist for a uid that is not blacklisted adds it (the call
\* succeeds and the uid is blacklisted afterwards, so that its next
\* requestSupport answers BLACKLISTED); for a uid already blacklisted it
\* rejects and leaves the blacklist as it was.
C27_AddBlacklistAdds ==
  [][\A uid \in Requesters :
        /\ lastOp'.op = "addBlacklist" /\ lastOp'.who = uid
        /\ CallAddBlacklist(uid)
        => IF uid \in store.blacklist
           THEN lastOp'.err # "" /\ store'.blacklist = store.blacklist
           ELSE lastOp'.err = "" /\ store'.blacklist = store.blacklist \cup {uid}]_vars

DistinctRecordIds ==
  \A i, j \in 1 .. Len(store.tickets) :
     store.tickets[i].id = store.tickets[j].id => i = j

\* C28: a record appended by addTicket carries the id addTicket returns (the
\* value of the ticket-id counter before the call), an id no stored record has
\* yet; hence all stored records have pairwise distinct ids.
C28_AddTicketFreshId ==
  /\ []DistinctRecordIds
  /\ [][Len(store'.tickets) = Len(store.tickets) + 1
         => LET new == store'.tickets[Len(store'.tickets)]
            IN  /\ new.id = store.ticketId
                /\ \A i \in 1 .. Len(store.tickets) : store.tickets[i].id # new.id]_vars

\* C29: an accept by one supporter leaves the offers held by every other
\* supporter as they were, those for the accepted ticket included: the other
\* supporter's active entry is still active and in the same state (REQUEST
\* stays REQUEST), and its pending list is the same list of WAITING offers.
C29_AcceptFrame ==
  [][\A c \in Supporters :
        lastOp'.op = "accept" /\ lastOp'.who = c
        => /\ Len(src') = Len(src)
           /\ \A i \in 1 .. Len(src) : src[i].uid # c => src'[i] = src[i]
           /\ \A d \in Clients \ {c} : challengeQueue'[d] = challengeQueue[d]]_vars

\* a supporter accepted a ticket, which left the open queue, while another
\* supporter holds an offer for the same ticket, active and in REQUEST, with a
\* further offer pending behind it
C29_Witness ==
  /\ lastOp.op = "accept"
  /\ src[challengeQueue[lastOp.who].active].state = ACCEPT
  /\ IndexOf(queue, src[challengeQueue[lastOp.who].active].queue) = 0
  /\ \E d \in Supporters \ {lastOp.who} :
        /\ challengeQueue[d].active # None
        /\ src[challengeQueue[d].active].queue = src[challengeQueue[lastOp.who].active].queue
        /\ src[challengeQueue[d].active].state = REQUEST
        /\ challengeQueue[d].challenges # << >>

\* at every handler boundary a ticket has id 0 exactly as long as no save of
\* it has run
SaveSettled ==
  \A k \in 1 .. Len(pendingRequest) :
     (ticket[k].id = 0) = (pendingRequest[k] # DONE)

\* C30: no handler starts a save of a ticket while an earlier save of the same
\* ticket has not yet assigned the returned id, and when a handler ends every
\* save it started has assigned its id: a ticket saved before has a non-zero
\* id whenever the next save of it starts.
C30_SavesDoNotInterleave ==
  /\ ~lastOp.interleaved
  /\ SaveSettled

\* a ticket went through three saves in three handlers (complete, accept and
\* resolve) with another ticket saved as well
C30_Witness ==
  /\ lastOp.op = "resolve" /\ lastOp.writes = 2
  /\ \E j, k \in 1 .. Len(ticket) :
        /\ j # k
        /\ ticket[k].status = "closed"
        /\ ticket[k].supporter = lastOp.who
        /\ ticket[k].id > 2
        /\ ticket[j].id # 0

\* C31: every ticket in the open-queue list has status open and no supporter,
\* and no ticket in the open-queue list is referenced by a SupportSession.
C31_QueuedTicketsUnassigned ==
  \A n \in 1 .. Len(queue) :
     LET k == queues[queue[n]]
     IN  /\ ticket[k].status = "open"
         /\ ticket[k].supporter = ""
         /\ IndexOf(sessions, k) = 0

\* one ticket waits in the open queue while another is in a session, and an
\* accept of the ticket in session has just failed
C31_Witness ==
  /\ queue # << >>
  /\ sessions # << >>
  /\ lastOp.op = "accept"
  /\ lastOp.err = "Could not find queue entry!"

\* C32: every SupportSession in the session list references a ticket with
\* status open and a supporter assigned, and no two sessions reference the
\* same ticket.
C32_SessionsOpenAndAssigned ==
  /\ \A n \in 1 .. Len(sessions) :
        /\ ticket[sessions[n]].status = "open"
        /\ ticket[sessions[n]].supporter # ""
  /\ \A m, n \in 1 .. Len(sessions) : sessions[m] = sessions[n] => m = n

\* a session is running for a ticket, and a second supporter's accept of that
\* ticket has failed without adding a session
C32_Witness ==
  /\ Len(sessions) = 1
  /\ lastOp.op = "accept"
  /\ lastOp.err = "Could not find queue entry!"
  /\ \E i \in 1 .. Len(src) :
        /\ src[i].uid = lastOp.who /\ src[i].state = ACCEPT
        /\ queues[src[i].queue] = sessions[1]
        /\ ticket[sessions[1]].supporter # lastOp.who

\* C33: an accept of an offer whose ticket has already left the open queue
\* (another supporter accepted it) fails with "Could not find queue entry!"
\* and leaves every ticket, the store and the session list as they were.
C33_SecondAcceptFails ==
  [][\A c \in Supporters :
        /\ lastOp'.op = "accept" /\ lastOp'.who = c
        /\ Accept(c)
        /\ IndexOf(queue, src[challengeQueue[c].active].queue) = 0
        => /\ lastOp'.err = "Could not find queue entry!"
           /\ ticket' = ticket
           /\ store' = store
           /\ lastOp'.writes = 0
           /\ sessions' = sessions
           /\ queue' = queue]_vars

\* the second supporter's accept has failed; the ticket keeps the first
\* supporter, in memory and in its latest stored record
C33_Witness ==
  /\ lastOp.op = "accept"
  /\ lastOp.err = "Could not find queue entry!"
  /\ \E k \in 1 .. Len(ticket) :
        /\ ticket[k].supporter \in Supporters \ {lastOp.who}
        /\ IndexOf(sessions, k) # 0
        /\ store.tickets[Len(store.tickets)].supporter = ticket[k].supporter
        /\ \A i \in 1 .. Len(store.tickets) : store.tickets[i].supporter # lastOp.who

\* C34: after a successful load every stored ticket with status open that was
\* valid when saved (issuer, issue, a configured role, a creation time) is in
\* the open-queue list again, with its creation time.
C34_OpenTicketsReloaded ==
  [][plugin.phase = "constructed" /\ plugin'.phase = "ready"
     => \A i \in 1 .. Len(store.tickets) :
           LET e == store.tickets[i]
           IN  /\ e.status = "open"
               /\ e.issuer # "" /\ e.issue # "" /\ e.created > 0
               /\ getRoleByDepartment(e.role) # Undefined
               => \E n \in 1 .. Len(queue') :
                     LET t == ticket'[queues'[queue'[n]]]
                     IN  /\ t.issuer = e.issuer
                         /\ t.issue = e.issue
                         /\ t.created = e.created]_vars

\* C35: a RequestChallenge that reached DONE is no longer in the
\* pending-request list, so a requester whose earlier challenges are all done
\* and who has a new challenge in ASK_INQUIRY passes the permission check of
\* the request command.
C35_DoneChallengeRemoved ==
  /\ \A k \in 1 .. Len(pendingRequest) : pendingRequest[k] # DONE
  /\ \A c \in Requesters :
        (\E k \in 1 .. Len(pendingRequest) :
            /\ ticket[k].issuer = c
            /\ pendingRequest[k] = ASK_INQUIRY
            /\ \A j \in 1 .. k - 1 : ticket[j].issuer = c => pendingRequest[j] = DONE)
        => clientInRequestChallengeState(c, ASK_INQUIRY)

\* C36: a save of one ticket (in a describe, accept or resolve step) leaves
\* every stored record of another ticket as it was: a record already in the
\* store changes only into a record of the same ticket.
C36_SaveLeavesOtherRecords ==
  [][lastOp'.op \in {"describe", "accept", "resolve"}
     => /\ Len(store'.tickets) >= Len(store.tickets)
        /\ \A i \in 1 .. Len(store.tickets) :
              \/ store'.tickets[i] = store.tickets[i]
              \/ /\ store'.tickets[i].issuer = store.tickets[i].issuer
                 /\ store'.tickets[i].issue = store.tickets[i].issue
                 /\ store'.tickets[i].created = store.tickets[i].created]_vars

\* C37: once a ticket is closed the store holds no record of it with status
\* open; a closed ticket stays closed and is neither in the open-queue list
\* nor in a session.
C37_ClosedLeavesNoOpenRecord ==
  /\ [](\A k \in 1 .. Len(ticket) :
          ticket[k].status = "closed" =>
             /\ \A i \in 1 .. Len(store.tickets) :
                   (store.tickets[i].issuer = ticket[k].issuer
                      /\ store.tickets[i].created = ticket[k].created)
                   => store.tickets[i].status # "open"
             /\ IndexOf(sessions, k) = 0
             /\ \A n \in 1 .. Len(queue) : queues[queue[n]] # k)
  /\ [][\A k \in 1 .. Len(ticket) :
           ticket[k].status = "closed" => ticket'[k].status = "closed"]_vars

\* C38: a ticket's resolved flag is true exactly when its status is closed,
\* in memory and in every stored record.
C38_ResolvedIffClosed ==
  /\ \A k \in 1 .. Len(ticket) :
        ticket[k].resolved = (ticket[k].status = "closed")
  /\ \A i \in 1 .. Len(store.tickets) :
        store.tickets[i].resolved = (store.tickets[i].status = "closed")

\* C39: a ChallengeQueue without active entry has an empty pending list,
\* after every add and every stopActive.
C39_NoWaitingBehindEmptySlot ==
  \A c \in Clients :
     challengeQueue[c].active = None => challengeQueue[c].challenges = << >>

\* stopActive has drained a queue that held offers: the last one was stopped
\* and nothing is pending, while the other supporter's queue has an active
\* entry and a pending one
C39_Witness ==
  /\ lastOp.op = "stopActive"
  /\ challengeQueue[lastOp.who].active = None
  /\ \E i, j \in 1 .. Len(src) : i # j /\ src[i].uid = lastOp.who /\ src[j].uid = lastOp.who
  /\ \E d \in Supporters \ {lastOp.who} :
        /\ challengeQueue[d].active # None
        /\ challengeQueue[d].challenges # << >>

OneSessionPerSupporter ==
  \A m, n \in 1 .. Len(sessions) :
     ticket[sessions[m]].supporter = ticket[sessions[n]].supporter => m = n

\* C40: no two sessions in the session list have the same supporter; a
\* resolve command removes the one session whose ticket is assigned to its
\* sender, closes that ticket and leaves every other session in the list.
C40_ResolveClosesOwnSession ==
  /\ []OneSessionPerSupporter
  /\ [][\A c \in Supporters :
           lastOp'.op = "resolve" /\ lastOp'.who = c
           => \E n \in 1 .. Len(sessions) :
                 /\ ticket[sessions[n]].supporter = c
                 /\ sessions' = Splice1(sessions, n)
                 /\ ticket'[sessions[n]].status = "closed"
                 /\ \A k \in 1 .. Len(ticket) :
                       k # sessions[n] => ticket'[k] = ticket[k]]_vars

\* a supporter has resolved its session while the session of the other
\* supporter is still running
C40_Witness ==
  /\ lastOp.op = "resolve"
  /\ Len(sessions) = 1
  /\ ticket[sessions[1]].supporter \in Supporters \ {lastOp.who}
  /\ ticket[sessions[1]].status = "open"
  /\ \E k \in 1 .. Len(ticket) :
        ticket[k].supporter = lastOp.who /\ ticket[k].status = "closed"
====
